---- MODULE Spec2Model ----
(***************************************************************************)
(* Model of the x86-64 native backend of the compiler:                     *)
(*   compiler/gen_dev/src/generic64/x86_64.rs                              *)
(*     - the register enumeration X86_64GPReg and its encodings,           *)
(*     - the two calling-convention tables (X86_64SystemV and              *)
(*       X86_64WindowsFastcall),                                           *)
(*     - the instruction encoder X86_64Assembler, which appends bytes to   *)
(*       a growable output buffer,                                         *)
(* and of the helpers of the LLVM backend that call into the builtins'     *)
(* bitcode and build the wrappers passed to it:                            *)
(*   compiler/gen_llvm/src/llvm/bitcode.rs                                 *)
(*                                                                         *)
(* Bytes are written in hexadecimal (\hC0) exactly as in the source.       *)
(* A 64-bit integer does not fit the integers of TLC; an i64 is held       *)
(* as four 16-bit limbs <<l0, l1, l2, l3>>, least significant first,       *)
(* l0..l2 in 0..65535 and l3 (which carries the sign) in -32768..32767:    *)
(*   value = l0 + l1 * 2^16 + l2 * 2^32 + l3 * 2^48.                       *)
(***************************************************************************)
EXTENDS Integers, Sequences, FiniteSets, TLC

VARIABLES
    buf,            \* the output buffer: [data: bytes, cap: capacity, grows: reallocating appends]
    prev,           \* the buffer as it was when the last operation was entered
    last,           \* the last encoder operation and its operands
    calls,          \* the operations called since the buffer was created or cleared
    conv,           \* the calling convention selected for the target
    gp_free_regs,   \* the allocator's free list, popped from the end
    claimed,        \* the registers handed out so far, in the order they were popped
    probe,          \* the last look-up made in the convention's tables
    stack_sizes,    \* the stack-reservation constants the frame layout has read
    module,         \* the LLVM module: its functions, in the order they were added
    builder,        \* the call instructions built at the builder's position
    layout_ids,     \* LayoutIds: per symbol, the layouts that were given an id
    outcome,        \* the last call of a helper of bitcode.rs and how it ended
    requested       \* the wrapper names the wrapper builders were asked for

asmvars == <<buf, prev, last, calls>>
ccvars == <<conv, gp_free_regs, claimed, probe, stack_sizes>>
bcvars == <<module, builder, layout_ids, outcome, requested>>
vars == <<buf, prev, last, calls, conv, gp_free_regs, claimed, probe, stack_sizes,
          module, builder, layout_ids, outcome, requested>>

Max(a, b) == IF a >= b THEN a ELSE b

(***************************************************************************)
(* Registers                                                               *)
(***************************************************************************)

X86_64GPReg ==
    { "RAX", "RCX", "RDX", "RBX", "RSP", "RBP", "RSI", "RDI",
      "R8", "R9", "R10", "R11", "R12", "R13", "R14", "R15" }

\* `reg as u8`: the discriminant of the enumeration.
AsU8(reg) ==
    CASE reg = "RAX" -> 0
      [] reg = "RCX" -> 1
      [] reg = "RDX" -> 2
      [] reg = "RBX" -> 3
      [] reg = "RSP" -> 4
      [] reg = "RBP" -> 5
      [] reg = "RSI" -> 6
      [] reg = "RDI" -> 7
      [] reg = "R8" -> 8
      [] reg = "R9" -> 9
      [] reg = "R10" -> 10
      [] reg = "R11" -> 11
      [] reg = "R12" -> 12
      [] reg = "R13" -> 13
      [] reg = "R14" -> 14
      [] reg = "R15" -> 15

NoReg == "none"

REX == \h40
REX_W == REX + \h8

add_rm_extension(reg, byte) ==
    IF AsU8(reg) > 7 THEN byte + 1 ELSE byte

add_opcode_extension(reg, byte) == add_rm_extension(reg, byte)

add_reg_extension(reg, byte) ==
    IF AsU8(reg) > 7 THEN byte + 4 ELSE byte

\* `x << 3` on a u8.
Shl3(x) == (x * 8) % 256

(***************************************************************************)
(* Integers of the source: an i32 is an integer of TLC, an i64 is four     *)
(* 16-bit limbs.                                                           *)
(***************************************************************************)

I32_MAX == 2147483647
I32_MIN == -I32_MAX - 1

\* i32::to_le_bytes
I32ToLeBytes(imm) ==
    << imm % 256, (imm \div 256) % 256, (imm \div 65536) % 256, (imm \div 16777216) % 256 >>

\* i64::to_le_bytes
I64ToLeBytes(imm) ==
    << imm[1] % 256, (imm[1] \div 256) % 256,
       imm[2] % 256, (imm[2] \div 256) % 256,
       imm[3] % 256, (imm[3] \div 256) % 256,
       imm[4] % 256, (imm[4] \div 256) % 256 >>

\* `x as i64` for an i32 x: sign extension.
I32AsI64(x) ==
    << x % 65536, (x \div 65536) % 65536,
       IF x < 0 THEN 65535 ELSE 0, IF x < 0 THEN -1 ELSE 0 >>

\* `x as i32` for an i64 x: the low 32 bits, read as a signed integer.
I64AsI32(x) ==
    (IF x[2] >= 32768 THEN x[2] - 65536 ELSE x[2]) * 65536 + x[1]

\* a <= b on i64: compare from the most significant limb down.
I64Le(a, b) ==
    \/ a[4] < b[4]
    \/ a[4] = b[4] /\ a[3] < b[3]
    \/ a[4] = b[4] /\ a[3] = b[3] /\ a[2] < b[2]
    \/ a[4] = b[4] /\ a[3] = b[3] /\ a[2] = b[2] /\ a[1] <= b[1]

I64Ge(a, b) == I64Le(b, a)

(***************************************************************************)
(* The output buffer, bumpalo::collections::Vec<u8>                        *)
(***************************************************************************)

\* A buffer is its bytes (data), its capacity (cap) and the number of appends
\* since the last clear that had to reallocate it (grows).

\* Vec::reserve: room for `additional` more bytes; growth is amortised.
reserve(v, additional) ==
    IF v.cap - Len(v.data) >= additional
        THEN v
        ELSE [v EXCEPT !.cap = Max(2 * v.cap, Len(v.data) + additional)]

\* Vec::extend with a slice of bytes.
extend(v, bytes) ==
    LET r == reserve(v, Len(bytes))
    IN  [r EXCEPT !.data = @ \o bytes,
                  !.grows = IF r.cap # v.cap THEN @ + 1 ELSE @]

\* Vec::push
push(v, byte) ==
    LET r == reserve(v, 1)
    IN  [r EXCEPT !.data = Append(@, byte),
                  !.grows = IF r.cap # v.cap THEN @ + 1 ELSE @]

\* Vec::clear: the length becomes 0, the capacity is kept.
clear(v) == [v EXCEPT !.data = << >>, !.grows = 0]

(***************************************************************************)
(* The instruction encoder, impl Assembler<X86_64GPReg> for X86_64Assembler *)
(* Each operator takes the buffer and returns the buffer after the call.   *)
(***************************************************************************)

\* As add_register64bit_immediate32bit, reserving room for the first append only.
add_register64bit_immediate32bit_short_reserve(v, dst, imm) ==
    LET rex == add_rm_extension(dst, REX_W)
        dst_mod == AsU8(dst) % 8
        v1 == reserve(v, 3)
        v2 == extend(v1, << rex, \h81, \hC0 + dst_mod >>)
    IN  extend(v2, I32ToLeBytes(imm))

\* `ADD r/m64, imm32`
add_register64bit_immediate32bit(v, dst, imm) ==
    LET rex == add_rm_extension(dst, REX_W)
        dst_mod == AsU8(dst) % 8
        v1 == reserve(v, 7)
        v2 == extend(v1, << rex, \h81, \hC0 + dst_mod >>)
    IN  extend(v2, I32ToLeBytes(imm))

\* As add_register64bit_register64bit, with the source shifted into ModRM
\* without being reduced to its low 3 bits.
add_register64bit_register64bit_unmasked(v, dst, src) ==
    LET rex0 == add_rm_extension(dst, REX_W)
        rex == add_reg_extension(src, rex0)
        dst_mod == AsU8(dst) % 8
        src_mod == Shl3(AsU8(src))
    IN  extend(v, << rex, \h01, \hC0 + dst_mod + src_mod >>)

\* `ADD r/m64,r64`
add_register64bit_register64bit(v, dst, src) ==
    LET rex0 == add_rm_extension(dst, REX_W)
        rex == add_reg_extension(src, rex0)
        dst_mod == AsU8(dst) % 8
        src_mod == Shl3(AsU8(src) % 8)
    IN  extend(v, << rex, \h01, \hC0 + dst_mod + src_mod >>)

\* As cmovl_register64bit_register64bit, with the extension bits of add (dst as r/m).
cmovl_register64bit_register64bit_swapped(v, dst, src) ==
    LET rex0 == add_rm_extension(dst, REX_W)
        rex == add_reg_extension(src, rex0)
        dst_mod == Shl3(AsU8(dst) % 8)
        src_mod == AsU8(src) % 8
    IN  extend(v, << rex, \h0F, \h4C, \hC0 + dst_mod + src_mod >>)

\* `CMOVL r64,r/m64`
cmovl_register64bit_register64bit(v, dst, src) ==
    LET rex0 == add_reg_extension(dst, REX_W)
        rex == add_rm_extension(src, rex0)
        dst_mod == Shl3(AsU8(dst) % 8)
        src_mod == AsU8(src) % 8
    IN  extend(v, << rex, \h0F, \h4C, \hC0 + dst_mod + src_mod >>)

\* `MOV r/m64, imm32`
mov_register64bit_immediate32bit(v, dst, imm) ==
    LET rex == add_rm_extension(dst, REX_W)
        dst_mod == AsU8(dst) % 8
        v1 == reserve(v, 7)
        v2 == extend(v1, << rex, \hC7, \hC0 + dst_mod >>)
    IN  extend(v2, I32ToLeBytes(imm))

\* As mov_register64bit_immediate64bit, with the upper end of the range excluded.
mov_register64bit_immediate64bit_strict(v, dst, imm) ==
    IF I64Le(imm, I32AsI64(I32_MAX)) /\ imm # I32AsI64(I32_MAX)
          /\ I64Ge(imm, I32AsI64(I32_MIN))
        THEN mov_register64bit_immediate32bit(v, dst, I64AsI32(imm))
        ELSE LET rex == add_opcode_extension(dst, REX_W)
                 dst_mod == AsU8(dst) % 8
                 v1 == reserve(v, 10)
                 v2 == extend(v1, << rex, \hB8 + dst_mod >>)
             IN  extend(v2, I64ToLeBytes(imm))

\* `MOV r64, imm64`
mov_register64bit_immediate64bit(v, dst, imm) ==
    IF I64Le(imm, I32AsI64(I32_MAX)) /\ I64Ge(imm, I32AsI64(I32_MIN))
        THEN mov_register64bit_immediate32bit(v, dst, I64AsI32(imm))
        ELSE LET rex == add_opcode_extension(dst, REX_W)
                 dst_mod == AsU8(dst) % 8
                 v1 == reserve(v, 10)
                 v2 == extend(v1, << rex, \hB8 + dst_mod >>)
             IN  extend(v2, I64ToLeBytes(imm))

\* `MOV r/m64,r64`
mov_register64bit_register64bit(v, dst, src) ==
    LET rex0 == add_rm_extension(dst, REX_W)
        rex == add_reg_extension(src, rex0)
        dst_mod == AsU8(dst) % 8
        src_mod == Shl3(AsU8(src) % 8)
    IN  extend(v, << rex, \h89, \hC0 + dst_mod + src_mod >>)

\* `MOV r64,r/m64`, the r/m64 being [RSP + offset]
mov_register64bit_stackoffset32bit(v, dst, offset) ==
    LET rex == add_reg_extension(dst, REX_W)
        dst_mod == Shl3(AsU8(dst) % 8)
        v1 == reserve(v, 8)
        v2 == extend(v1, << rex, \h8B, \h84 + dst_mod, \h24 >>)
    IN  extend(v2, I32ToLeBytes(offset))

\* As mov_stackoffset32bit_register64bit, with the register extended as an r/m.
mov_stackoffset32bit_register64bit_rm_ext(v, offset, src) ==
    LET rex == add_rm_extension(src, REX_W)
        src_mod == Shl3(AsU8(src) % 8)
        v1 == reserve(v, 8)
        v2 == extend(v1, << rex, \h89, \h84 + src_mod, \h24 >>)
    IN  extend(v2, I32ToLeBytes(offset))

\* `MOV r/m64,r64`, the r/m64 being [RSP + offset]
mov_stackoffset32bit_register64bit(v, offset, src) ==
    LET rex == add_reg_extension(src, REX_W)
        src_mod == Shl3(AsU8(src) % 8)
        v1 == reserve(v, 8)
        v2 == extend(v1, << rex, \h89, \h84 + src_mod, \h24 >>)
    IN  extend(v2, I32ToLeBytes(offset))

\* `NEG r/m64`
neg_register64bit(v, reg) ==
    LET rex == add_rm_extension(reg, REX_W)
        reg_mod == AsU8(reg) % 8
    IN  extend(v, << rex, \hF7, \hD8 + reg_mod >>)

\* As ret, writing the byte to a buffer it has emptied.
ret_resetting(v) == push(clear(v), \hC3)

\* `RET`
ret(v) == push(v, \hC3)

\* As sub_register64bit_immediate32bit, with the ModRM base of add (/0 for /5).
sub_register64bit_immediate32bit_as_add(v, dst, imm) ==
    LET rex == add_rm_extension(dst, REX_W)
        dst_mod == AsU8(dst) % 8
        v1 == reserve(v, 7)
        v2 == extend(v1, << rex, \h81, \hC0 + dst_mod >>)
    IN  extend(v2, I32ToLeBytes(imm))

\* `SUB r/m64, imm32`
sub_register64bit_immediate32bit(v, dst, imm) ==
    LET rex == add_rm_extension(dst, REX_W)
        dst_mod == AsU8(dst) % 8
        v1 == reserve(v, 7)
        v2 == extend(v1, << rex, \h81, \hE8 + dst_mod >>)
    IN  extend(v2, I32ToLeBytes(imm))

\* As pop_register64bit, with no prefix for the registers above 7.
pop_register64bit_no_rex(v, reg) ==
    LET reg_mod == AsU8(reg) % 8
    IN  push(v, \h58 + reg_mod)

\* `POP r64`
pop_register64bit(v, reg) ==
    LET reg_mod == AsU8(reg) % 8
    IN  IF AsU8(reg) > 7
            THEN LET rex == add_opcode_extension(reg, REX)
                 IN  extend(v, << rex, \h58 + reg_mod >>)
            ELSE push(v, \h58 + reg_mod)

\* As push_register64bit, with the prefix emitted for every register.
push_register64bit_always_rex(v, reg) ==
    LET reg_mod == AsU8(reg) % 8
        rex == add_opcode_extension(reg, REX)
    IN  extend(v, << rex, \h50 + reg_mod >>)

\* `PUSH r64`
push_register64bit(v, reg) ==
    LET reg_mod == AsU8(reg) % 8
    IN  IF AsU8(reg) > 7
            THEN LET rex == add_opcode_extension(reg, REX)
                 IN  extend(v, << rex, \h50 + reg_mod >>)
            ELSE push(v, \h50 + reg_mod)

(***************************************************************************)
(* The calling-convention tables, impl CallConv<X86_64GPReg>               *)
(***************************************************************************)

CallConvs == { "X86_64SystemV", "X86_64WindowsFastcall" }

SystemV_gp_param_regs == << "RDI", "RSI", "RDX", "RCX", "R8", "R9" >>

SystemV_gp_return_regs == << "RAX", "RDX" >>

\* As SystemV_gp_default_free_regs, with R8 and R9 (parameter registers) put
\* behind R10 and R11.
SystemV_gp_default_free_regs_params_last ==
    << "RBX", "R12", "R13", "R14", "R15",
       "RAX", "RCX", "RDX", "RSI", "RDI", "R10", "R11", "R8", "R9" >>

\* As SystemV_gp_default_free_regs, with the callee-saved registers at the end.
SystemV_gp_default_free_regs_callee_first ==
    << "RAX", "RCX", "RDX", "RSI", "RDI", "R8", "R9", "R10", "R11",
       "RBX", "R12", "R13", "R14", "R15" >>

\* The registers to use first are at the end; the allocator pops.
SystemV_gp_default_free_regs ==
    << "RBX", "R12", "R13", "R14", "R15",
       "RAX", "RCX", "RDX", "RSI", "RDI", "R8", "R9", "R10", "R11" >>

\* As SystemV_caller_saved_regs, with RBX, which is callee-saved, listed too.
SystemV_caller_saved_regs_with_rbx ==
    { "RAX", "RCX", "RDX", "RBX", "RSP", "RSI", "RDI", "R8", "R9", "R10", "R11" }

SystemV_caller_saved_regs ==
    { "RAX", "RCX", "RDX", "RSP", "RSI", "RDI", "R8", "R9", "R10", "R11" }

SystemV_callee_saved_regs ==
    { "RBX", "RBP", "R12", "R13", "R14", "R15" }

SystemV_stack_pointer == "RSP"

SystemV_frame_pointer == "RBP"

SystemV_shadow_space_size == 0

SystemV_red_zone_size == 128

\* As WindowsFastcall_gp_param_regs, with the parameter registers of System V.
WindowsFastcall_gp_param_regs_as_sysv == SystemV_gp_param_regs

WindowsFastcall_gp_param_regs == << "RCX", "RDX", "R8", "R9" >>

WindowsFastcall_gp_return_regs == << "RAX" >>

\* As WindowsFastcall_gp_default_free_regs, with the stack pointer left in.
WindowsFastcall_gp_default_free_regs_with_rsp ==
    << "RBX", "RSI", "RSP", "RDI", "R12", "R13", "R14", "R15",
       "RAX", "RCX", "RDX", "R8", "R9", "R10", "R11" >>

\* As WindowsFastcall_gp_default_free_regs, with RSI and RDI (callee-saved on
\* Windows) placed as System V places them, among the caller-saved registers.
WindowsFastcall_gp_default_free_regs_as_sysv ==
    << "RBX", "R12", "R13", "R14", "R15",
       "RAX", "RCX", "RDX", "RSI", "RDI", "R8", "R9", "R10", "R11" >>

\* The registers to use first are at the end; the allocator pops.
WindowsFastcall_gp_default_free_regs ==
    << "RBX", "RSI", "RDI", "R12", "R13", "R14", "R15",
       "RAX", "RCX", "RDX", "R8", "R9", "R10", "R11" >>

WindowsFastcall_caller_saved_regs ==
    { "RAX", "RCX", "RDX", "R8", "R9", "R10", "R11" }

\* As WindowsFastcall_callee_saved_regs, without the stack pointer.
WindowsFastcall_callee_saved_regs_no_rsp ==
    { "RBX", "RBP", "RSI", "RDI", "R12", "R13", "R14", "R15" }

WindowsFastcall_callee_saved_regs ==
    { "RBX", "RBP", "RSI", "RSP", "RDI", "R12", "R13", "R14", "R15" }

WindowsFastcall_stack_pointer == "RSP"

WindowsFastcall_frame_pointer == "RBP"

\* As WindowsFastcall_shadow_space_size, with the size of System V.
WindowsFastcall_shadow_space_size_as_sysv == SystemV_shadow_space_size

WindowsFastcall_shadow_space_size == 32

WindowsFastcall_red_zone_size == 0

\* CC::f() for the convention cc the backend was instantiated with.
gp_param_regs(cc) ==
    IF cc = "X86_64SystemV" THEN SystemV_gp_param_regs ELSE WindowsFastcall_gp_param_regs

gp_return_regs(cc) ==
    IF cc = "X86_64SystemV" THEN SystemV_gp_return_regs ELSE WindowsFastcall_gp_return_regs

gp_default_free_regs(cc) ==
    IF cc = "X86_64SystemV" THEN SystemV_gp_default_free_regs
                            ELSE WindowsFastcall_gp_default_free_regs

caller_saved_regs(cc) ==
    IF cc = "X86_64SystemV" THEN SystemV_caller_saved_regs
                            ELSE WindowsFastcall_caller_saved_regs

callee_saved_regs(cc) ==
    IF cc = "X86_64SystemV" THEN SystemV_callee_saved_regs
                            ELSE WindowsFastcall_callee_saved_regs

stack_pointer(cc) ==
    IF cc = "X86_64SystemV" THEN SystemV_stack_pointer ELSE WindowsFastcall_stack_pointer

frame_pointer(cc) ==
    IF cc = "X86_64SystemV" THEN SystemV_frame_pointer ELSE WindowsFastcall_frame_pointer

shadow_space_size(cc) ==
    IF cc = "X86_64SystemV" THEN SystemV_shadow_space_size
                            ELSE WindowsFastcall_shadow_space_size

red_zone_size(cc) ==
    IF cc = "X86_64SystemV" THEN SystemV_red_zone_size ELSE WindowsFastcall_red_zone_size

\* The elements of a slice.
Elems(s) == { s[i] : i \in 1..Len(s) }

(***************************************************************************)
(* The helpers that call into the bitcode of the builtins and build the    *)
(* wrappers handed to it: compiler/gen_llvm/src/llvm/bitcode.rs.           *)
(*                                                                         *)
(* A function name is a sequence of the strings it is formatted from, so   *)
(* format!("{}_inc", name) is Append(name, "_inc"). A function of the      *)
(* module is a record of its name, return type, parameter types, calling   *)
(* convention, attributes, what its body does, and the calls in its body.  *)
(* A FunctionValue is the index of its function in the module.             *)
(***************************************************************************)

C_CALL_CONV == "C_CALL_CONV"

FAST_CALL_CONV == "FAST_CALL_CONV"

\* env.context.i8_type().ptr_type(AddressSpace::Generic)
arg_type == "i8*"

\* env.ptr_int()
ptr_int == "usize"

NoFunction == 0

NoMessage == [text |-> "", fn_name |-> << >>]

\* Module::get_function: the function of that name, if there is one.
get_function(m, fn_name) ==
    IF \E i \in 1..Len(m) : m[i].name = fn_name
        THEN CHOOSE i \in 1..Len(m) :
                /\ m[i].name = fn_name
                /\ \A j \in 1..(i - 1) : m[j].name # fn_name
        ELSE NoFunction

\* u32 as Display
U32ToString(n) == << "1", "2", "3", "4", "5", "6", "7", "8", "9" >>[n]

\* Module::add_function: a name that is taken is made unique by LLVM.
add_function(m, fn_name, return_type, arguments) ==
    Append(m, [name |-> IF get_function(m, fn_name) = NoFunction
                            THEN fn_name
                            ELSE fn_name \o << ".", U32ToString(Len(m)) >>,
               ret |-> return_type,
               params |-> arguments,
               cc |-> C_CALL_CONV,
               attributes |-> { },
               body |-> "",
               calls |-> << >>])

\* refcounting::build_header_help: adds a function to the module; being
\* internal to the generated code, it gets the fast calling convention.
build_header_help(m, fn_name, return_type, arguments) ==
    LET m1 == add_function(m, fn_name, return_type, arguments)
    IN  [m1 EXCEPT ![Len(m1)].cc = FAST_CALL_CONV]

\* Builder::build_call: a call instruction; it has the C calling convention
\* until one is set.
build_call(fn_val, args, name) ==
    [callee |-> fn_val.name, args |-> args, name |-> name, cc |-> C_CALL_CONV]

\* LayoutIds::get: the id of the layout under the symbol; a layout seen for
\* the first time gets the next id.
LayoutIds_get(ids, symbol, layout) ==
    LET known == ids[symbol]
    IN  IF \E i \in 1..Len(known) : known[i] = layout
            THEN [ids |-> ids, id |-> CHOOSE i \in 1..Len(known) : known[i] = layout]
            ELSE [ids |-> [ids EXCEPT ![symbol] = Append(@, layout)],
                  id |-> Len(known) + 1]

\* LayoutId::to_symbol_string
to_symbol_string(symbol, id) == << symbol, "_", U32ToString(id) >>

\* A helper returned value, leaving the environment as s.
Returned(s, fn_name, value) ==
    [module |-> s.module, builder |-> s.builder, layout_ids |-> s.layout_ids,
     fn_name |-> fn_name, status |-> "returned", ret |-> value, msg |-> NoMessage]

\* A helper panicked with the message text, leaving the environment as s.
Panicked(s, fn_name, text) ==
    [module |-> s.module, builder |-> s.builder, layout_ids |-> s.layout_ids,
     fn_name |-> fn_name, status |-> "panic", ret |-> NoFunction,
     msg |-> [text |-> text, fn_name |-> fn_name]]

UnrecognizedBuiltin ==
    "Unrecognized builtin function: {:?} - if you're working on the Roc compiler, do you need to rebuild the bitcode? See compiler/builtins/bitcode/README.md"

\* As call_bitcode_fn_help, leaving the call with the convention build_call gave it.
call_bitcode_fn_help_default_cc(s, args, fn_name) ==
    LET fn == get_function(s.module, fn_name)
    IN  IF fn = NoFunction
            THEN Panicked(s, fn_name, UnrecognizedBuiltin)
            ELSE LET fn_val == s.module[fn]
                     call == build_call(fn_val, args, "call_builtin")
                 IN  Returned([s EXCEPT !.builder = Append(@, call)],
                              fn_name, Len(s.builder) + 1)

call_bitcode_fn_help(s, args, fn_name) ==
    LET fn == get_function(s.module, fn_name)
    IN  IF fn = NoFunction
            THEN Panicked(s, fn_name, UnrecognizedBuiltin)
            ELSE LET fn_val == s.module[fn]
                     call == build_call(fn_val, args, "call_builtin")
                 IN  Returned([s EXCEPT !.builder = Append(@, [call EXCEPT !.cc = fn_val.cc])],
                              fn_name, Len(s.builder) + 1)

\* CallSiteValue::try_as_basic_value: Left (a value) unless the callee returns void.
IsLeft(s, fn_name) == s.module[get_function(s.module, fn_name)].ret # "void"

call_bitcode_fn(s, args, fn_name) ==
    LET r == call_bitcode_fn_help(s, args, fn_name)
    IN  IF r.status = "panic" \/ IsLeft(s, fn_name)
            THEN r
            ELSE Panicked(r, fn_name,
                    "LLVM error: Did not get return value from bitcode function {:?}")

call_void_bitcode_fn(s, args, fn_name) ==
    LET r == call_bitcode_fn_help(s, args, fn_name)
    IN  IF r.status = "panic" \/ ~IsLeft(s, fn_name)
            THEN r
            ELSE Panicked(r, fn_name,
                    "LLVM error: Tried to call void bitcode function, but got return value from bitcode function, {:?}")

\* The shapes of a closure-data layout the wrappers tell apart.
ClosureDataLayouts ==
    { "FunctionPointer",    \* Layout::FunctionPointer(_, _)
      "ClosureEmpty",       \* Layout::Closure, its runtime representation Struct(&[])
      "Closure",            \* Layout::Closure, any other runtime representation
      "StructClosure",      \* Layout::Struct([Layout::Closure(..)])
      "StructEmpty",        \* Layout::Struct([])
      "Struct",             \* any other Layout::Struct(_)
      "Builtin" }           \* any other layout

Unreachable == "internal error: entered unreachable code: layout is not valid for a closure: {:?}"

\* [x; n]
RECURSIVE Repeat(_, _)
Repeat(x, n) == IF n = 0 THEN << >> ELSE Append(Repeat(x, n - 1), x)

build_transform_caller_help(s, roc_function, closure_data_layout, argument_layouts, fn_name) ==
    LET m1 == build_header_help(s.module, fn_name, "void",
                                Repeat(arg_type, Len(argument_layouts) + 2))
        w == Len(m1)
        m2 == [m1 EXCEPT ![w].attributes = @ \cup { "alwaysinline" }]
        arguments_cast == argument_layouts
    IN  IF closure_data_layout \in { "FunctionPointer", "ClosureEmpty", "StructEmpty", "Struct" }
               \/ closure_data_layout \in { "Closure", "StructClosure" }
            THEN LET args == IF closure_data_layout \in { "Closure", "StructClosure" }
                                THEN Append(arguments_cast, "closure_data")
                                ELSE arguments_cast
                     call == [build_call(s.module[roc_function], args, "tmp")
                                 EXCEPT !.cc = FAST_CALL_CONV]
                     m3 == [m2 EXCEPT ![w].calls = Append(@, call)]
                 IN  IF s.module[roc_function].ret = "void"
                        THEN Panicked([s EXCEPT !.module = m3], fn_name,
                                      "LLVM error: Invalid call by pointer.")
                        ELSE Returned([s EXCEPT !.module =
                                          [m3 EXCEPT ![w].body = "write_result"]],
                                      fn_name, w)
            ELSE Panicked([s EXCEPT !.module = m2], fn_name, Unreachable)

build_transform_caller(s, function, closure_data_layout, argument_layouts) ==
    LET fn_name == Append(s.module[function].name, "_zig_function_caller")
        function_value == get_function(s.module, fn_name)
    IN  IF function_value # NoFunction
            THEN Returned(s, fn_name, function_value)
            ELSE build_transform_caller_help(s, function, closure_data_layout,
                                             argument_layouts, fn_name)

\* enum Mode
Mode == { "Inc", "IncN", "Dec" }

\* As build_rc_wrapper, with one name for the three operations on a layout.
build_rc_wrapper_one_name(s, layout, rc_operation) ==
    LET symbol == "GENERIC_RC_REF"
        got == LayoutIds_get(s.layout_ids, symbol, layout)
        fn_name == to_symbol_string(symbol, got.id)
        s1 == [s EXCEPT !.layout_ids = got.ids]
        function_value == get_function(s.module, fn_name)
    IN  IF function_value # NoFunction
            THEN Returned(s1, fn_name, function_value)
            ELSE LET m1 == build_header_help(s.module, fn_name, "void",
                               IF rc_operation = "IncN"
                                   THEN << arg_type, ptr_int >>
                                   ELSE << arg_type >>)
                     w == Len(m1)
                     m2 == [m1 EXCEPT ![w].attributes = @ \cup { "alwaysinline" },
                                      ![w].body =
                                          CASE rc_operation = "Inc" -> "increment_refcount_layout"
                                            [] rc_operation = "IncN" -> "increment_n_refcount_layout"
                                            [] rc_operation = "Dec" -> "decrement_refcount_layout"]
                 IN  Returned([s1 EXCEPT !.module = m2], fn_name, w)

build_rc_wrapper(s, layout, rc_operation) ==
    LET symbol == "GENERIC_RC_REF"
        got == LayoutIds_get(s.layout_ids, symbol, layout)
        fn_name0 == to_symbol_string(symbol, got.id)
        fn_name == CASE rc_operation = "IncN" -> Append(fn_name0, "_inc_n")
                     [] rc_operation = "Inc" -> Append(fn_name0, "_inc")
                     [] rc_operation = "Dec" -> Append(fn_name0, "_dec")
        s1 == [s EXCEPT !.layout_ids = got.ids]
        function_value == get_function(s.module, fn_name)
    IN  IF function_value # NoFunction
            THEN Returned(s1, fn_name, function_value)
            ELSE LET m1 == build_header_help(s.module, fn_name, "void",
                               IF rc_operation = "IncN"
                                   THEN << arg_type, ptr_int >>
                                   ELSE << arg_type >>)
                     w == Len(m1)
                     m2 == [m1 EXCEPT ![w].attributes = @ \cup { "alwaysinline" },
                                      ![w].body =
                                          CASE rc_operation = "Inc" -> "increment_refcount_layout"
                                            [] rc_operation = "IncN" -> "increment_n_refcount_layout"
                                            [] rc_operation = "Dec" -> "decrement_refcount_layout"]
                 IN  Returned([s1 EXCEPT !.module = m2], fn_name, w)

build_inc_n_wrapper(s, layout) == build_rc_wrapper(s, layout, "IncN")

build_inc_wrapper(s, layout) == build_rc_wrapper(s, layout, "Inc")

build_dec_wrapper(s, layout) == build_rc_wrapper(s, layout, "Dec")

build_eq_wrapper(s, layout) ==
    LET symbol == "GENERIC_EQ_REF"
        got == LayoutIds_get(s.layout_ids, symbol, layout)
        fn_name == to_symbol_string(symbol, got.id)
        s1 == [s EXCEPT !.layout_ids = got.ids]
        function_value == get_function(s.module, fn_name)
    IN  IF function_value # NoFunction
            THEN Returned(s1, fn_name, function_value)
            ELSE LET m1 == build_header_help(s.module, fn_name, "bool",
                                             << arg_type, arg_type >>)
                     w == Len(m1)
                     m2 == [m1 EXCEPT ![w].attributes = @ \cup { "alwaysinline" },
                                      ![w].body = "generic_eq"]
                 IN  Returned([s1 EXCEPT !.module = m2], fn_name, w)

\* As build_compare_wrapper, the wrapper keeping the convention of its header.
build_compare_wrapper_internal_cc(s, roc_function, closure_data_layout, layout) ==
    LET fn_name == Append(s.module[roc_function].name, "_compare_wrapper")
        function_value == get_function(s.module, fn_name)
    IN  IF function_value # NoFunction
            THEN Returned(s, fn_name, function_value)
            ELSE LET m1 == build_header_help(s.module, fn_name, "i8",
                                             << arg_type, arg_type, arg_type >>)
                     w == Len(m1)
                     m3 == [m1 EXCEPT ![w].attributes = @ \cup { "alwaysinline" }]
                     default == << "value1", "value2" >>
                 IN  IF closure_data_layout
                            \in { "FunctionPointer", "ClosureEmpty", "Closure", "StructEmpty" }
                        THEN LET arguments_cast ==
                                     IF closure_data_layout = "Closure"
                                         THEN << "value1", "value2", "closure_data" >>
                                         ELSE default
                                 call == build_call(s.module[roc_function], arguments_cast,
                                                    "call_user_defined_compare_function")
                                 m4 == [m3 EXCEPT ![w].calls = Append(@, call)]
                             IN  IF s.module[roc_function].ret = "void"
                                    THEN Panicked([s EXCEPT !.module = m4], fn_name,
                                            "called Option::unwrap() on a None value")
                                    ELSE Returned(
                                            [s EXCEPT !.module =
                                                [m4 EXCEPT ![w].calls[1].cc = FAST_CALL_CONV,
                                                           ![w].body = "return_result"]],
                                            fn_name, w)
                        ELSE Panicked([s EXCEPT !.module = m3], fn_name, Unreachable)

build_compare_wrapper(s, roc_function, closure_data_layout, layout) ==
    LET fn_name == Append(s.module[roc_function].name, "_compare_wrapper")
        function_value == get_function(s.module, fn_name)
    IN  IF function_value # NoFunction
            THEN Returned(s, fn_name, function_value)
            ELSE LET m1 == build_header_help(s.module, fn_name, "i8",
                                             << arg_type, arg_type, arg_type >>)
                     w == Len(m1)
                     m2 == [m1 EXCEPT ![w].cc = C_CALL_CONV]
                     m3 == [m2 EXCEPT ![w].attributes = @ \cup { "alwaysinline" }]
                     default == << "value1", "value2" >>
                 IN  IF closure_data_layout
                            \in { "FunctionPointer", "ClosureEmpty", "Closure", "StructEmpty" }
                        THEN LET arguments_cast ==
                                     IF closure_data_layout = "Closure"
                                         THEN << "value1", "value2", "closure_data" >>
                                         ELSE default
                                 call == build_call(s.module[roc_function], arguments_cast,
                                                    "call_user_defined_compare_function")
                                 m4 == [m3 EXCEPT ![w].calls = Append(@, call)]
                             IN  IF s.module[roc_function].ret = "void"
                                    THEN Panicked([s EXCEPT !.module = m4], fn_name,
                                            "called Option::unwrap() on a None value")
                                    ELSE Returned(
                                            [s EXCEPT !.module =
                                                [m4 EXCEPT ![w].calls[1].cc = FAST_CALL_CONV,
                                                           ![w].body = "return_result"]],
                                            fn_name, w)
                        ELSE Panicked([s EXCEPT !.module = m3], fn_name, Unreachable)

(***************************************************************************)
(* Bounds and inputs                                                       *)
(***************************************************************************)

\* The longest sequence of encoder calls made on one buffer without clearing it.
MaxInstrs == 3

\* The largest capacity the buffer is created with.
InitCapMax == 1

\* The operands of the unit tests.
TEST_I32 == \h12345678
TEST_I64 == << \hDEF0, \h9ABC, \h5678, \h1234 >>

\* 32-bit immediates and stack offsets: zero, one-byte values, negative values,
\* the test value and the two ends of the type.
Imm32s == { 0, 1, -1, 127, -128, TEST_I32, I32_MAX, I32_MIN }

\* 64-bit immediates: values of the 32-bit range (both ends and one inside each),
\* one outside each end, values whose low 32 bits alone look in range, and the
\* two ends of the type.
Imm64s ==
    { I32AsI64(x) : x \in { 0, -1, TEST_I32, I32_MAX, I32_MAX - 1, I32_MIN, I32_MIN + 1 } }
    \cup { << 0, \h8000, 0, 0 >>,                    \* i32::MAX + 1
           << \hFFFF, \h7FFF, \hFFFF, -1 >>,         \* i32::MIN - 1
           << \hFFFF, \hFFFF, 0, 0 >>,               \* 2^32 - 1
           << 0, 0, 1, 0 >>,                         \* 2^32
           << 0, 0, \hFFFF, -2 >>,                   \* -2^48 - 2^32
           TEST_I64,
           << \hFFFF, \hFFFF, \hFFFF, \h7FFF >>,     \* i64::MAX
           << 0, 0, 0, -\h8000 >> }                  \* i64::MIN

\* The operands used where calls are made in sequence on one buffer: a register
\* of each half of the register file and the test values.
SeqRegs == { "RAX", "R15" }
SeqImm32s == { TEST_I32 }
SeqImm64s == { TEST_I64, I32AsI64(TEST_I32) }

\* The most calls of the helpers of bitcode.rs made on one module.
MaxBuilds == 3

\* The functions the module holds before any wrapper is built: two functions
\* compiled from the program, with the fast calling convention, and two
\* functions of the builtins' bitcode, one returning a value and one void.
InitModule ==
    << [name |-> << "Test_compare_1" >>, ret |-> "i8", params |-> << "i64", "i64" >>,
        cc |-> FAST_CALL_CONV, attributes |-> { }, body |-> "defined", calls |-> << >>],
       [name |-> << "Test_transform_2" >>, ret |-> "i64", params |-> << "i64", "i64" >>,
        cc |-> FAST_CALL_CONV, attributes |-> { }, body |-> "defined", calls |-> << >>],
       [name |-> << "roc_builtins.num.pow_int" >>, ret |-> "i64", params |-> << "i64", "i64" >>,
        cc |-> C_CALL_CONV, attributes |-> { }, body |-> "defined", calls |-> << >>],
       [name |-> << "roc_builtins.utils.test_panic" >>, ret |-> "void", params |-> << "i8*" >>,
        cc |-> C_CALL_CONV, attributes |-> { }, body |-> "defined", calls |-> << >>] >>

\* The user functions wrappers are built for.
RocFunctions == { << "Test_compare_1" >>, << "Test_transform_2" >> }

\* The names the bitcode helpers are called with: the two builtins, a function
\* of the module that is no builtin, and a builtin the bitcode does not hold.
BitcodeNames ==
    { << "roc_builtins.num.pow_int" >>, << "roc_builtins.utils.test_panic" >>,
      << "Test_compare_1" >>, << "roc_builtins.num.missing" >> }

\* The layouts wrappers are built for.
Layouts == { "Builtin(Str)", "Builtin(List)" }

\* The argument layouts of a transform caller.
ArgumentLayouts == { << "Builtin(Str)" >> }

WrapperOps ==
    { "build_transform_caller", "build_inc_n_wrapper", "build_inc_wrapper",
      "build_dec_wrapper", "build_eq_wrapper", "build_compare_wrapper" }

NoOutcome ==
    [n |-> 0, op |-> "none", fn_name |-> << >>, status |-> "none", ret |-> NoFunction,
     msg |-> NoMessage, existed |-> FALSE, module_before |-> InitModule,
     builder_before |-> << >>]

NoOp == [op |-> "none", dst |-> NoReg, src |-> NoReg, imm32 |-> 0, imm64 |-> I32AsI64(0)]

NoSizes == [read |-> FALSE, shadow_space_size |-> 0, red_zone_size |-> 0]

NoProbe == [reg |-> NoReg, param |-> FALSE, return |-> FALSE,
            caller_saved |-> FALSE, callee_saved |-> FALSE]

(***************************************************************************)
(* Initial states                                                          *)
(***************************************************************************)

\* A new buffer (bumpalo::vec![in &arena], or one made with a capacity).
InitBuf ==
    /\ \E c \in 0..InitCapMax : buf = [data |-> << >>, cap |-> c, grows |-> 0]
    /\ prev = buf
    /\ last = NoOp
    /\ calls = << >>

\* The backend is instantiated with one convention; its free list starts as
\* the convention's default.
InitConv(ccs) ==
    /\ conv \in ccs
    /\ gp_free_regs = gp_default_free_regs(conv)
    /\ claimed = << >>
    /\ probe = NoProbe
    /\ stack_sizes = NoSizes

\* The module holds the program's functions and the builtins; nothing was
\* built and no layout has an id.
InitBitcode ==
    /\ module = InitModule
    /\ builder = << >>
    /\ layout_ids = [GENERIC_RC_REF |-> << >>, GENERIC_EQ_REF |-> << >>]
    /\ outcome = NoOutcome
    /\ requested = { }

Init == InitBuf /\ InitConv({ "X86_64SystemV" }) /\ InitBitcode

InitCC ==
    /\ buf = [data |-> << >>, cap |-> 0, grows |-> 0]
    /\ prev = buf
    /\ last = NoOp
    /\ calls = << >>
    /\ InitConv(CallConvs)
    /\ InitBitcode

InitBC ==
    /\ buf = [data |-> << >>, cap |-> 0, grows |-> 0]
    /\ prev = buf
    /\ last = NoOp
    /\ calls = << >>
    /\ InitConv({ "X86_64SystemV" })
    /\ InitBitcode

(***************************************************************************)
(* Encoder actions: one call of an operation of X86_64Assembler on buf.    *)
(* R, I are the sets the operands are drawn from and lim the number of     *)
(* calls made on a buffer before it is cleared.                            *)
(***************************************************************************)

Call(op, dst, src, imm32, imm64, out) ==
    /\ buf' = out
    /\ prev' = buf
    /\ last' = [op |-> op, dst |-> dst, src |-> src, imm32 |-> imm32, imm64 |-> imm64]
    /\ calls' = Append(calls, last')
    /\ UNCHANGED ccvars
    /\ UNCHANGED bcvars

AddRegImm32(R, I, lim) ==
    /\ Len(calls) < lim
    /\ \E dst \in R, imm \in I :
          Call("add_register64bit_immediate32bit", dst, NoReg, imm, NoOp.imm64,
               add_register64bit_immediate32bit(buf, dst, imm))

AddRegReg(R, lim) ==
    /\ Len(calls) < lim
    /\ \E dst \in R, src \in R :
          Call("add_register64bit_register64bit", dst, src, 0, NoOp.imm64,
               add_register64bit_register64bit(buf, dst, src))

CmovlRegReg(R, lim) ==
    /\ Len(calls) < lim
    /\ \E dst \in R, src \in R :
          Call("cmovl_register64bit_register64bit", dst, src, 0, NoOp.imm64,
               cmovl_register64bit_register64bit(buf, dst, src))

MovRegImm32(R, I, lim) ==
    /\ Len(calls) < lim
    /\ \E dst \in R, imm \in I :
          Call("mov_register64bit_immediate32bit", dst, NoReg, imm, NoOp.imm64,
               mov_register64bit_immediate32bit(buf, dst, imm))

MovRegImm64(R, I, lim) ==
    /\ Len(calls) < lim
    /\ \E dst \in R, imm \in I :
          Call("mov_register64bit_immediate64bit", dst, NoReg, 0, imm,
               mov_register64bit_immediate64bit(buf, dst, imm))

MovRegReg(R, lim) ==
    /\ Len(calls) < lim
    /\ \E dst \in R, src \in R :
          Call("mov_register64bit_register64bit", dst, src, 0, NoOp.imm64,
               mov_register64bit_register64bit(buf, dst, src))

MovRegStack(R, I, lim) ==
    /\ Len(calls) < lim
    /\ \E dst \in R, offset \in I :
          Call("mov_register64bit_stackoffset32bit", dst, NoReg, offset, NoOp.imm64,
               mov_register64bit_stackoffset32bit(buf, dst, offset))

MovStackReg(R, I, lim) ==
    /\ Len(calls) < lim
    /\ \E src \in R, offset \in I :
          Call("mov_stackoffset32bit_register64bit", NoReg, src, offset, NoOp.imm64,
               mov_stackoffset32bit_register64bit(buf, offset, src))

NegReg(R, lim) ==
    /\ Len(calls) < lim
    /\ \E reg \in R :
          Call("neg_register64bit", reg, NoReg, 0, NoOp.imm64,
               neg_register64bit(buf, reg))

Ret(lim) ==
    /\ Len(calls) < lim
    /\ Call("ret", NoReg, NoReg, 0, NoOp.imm64, ret(buf))

SubRegImm32(R, I, lim) ==
    /\ Len(calls) < lim
    /\ \E dst \in R, imm \in I :
          Call("sub_register64bit_immediate32bit", dst, NoReg, imm, NoOp.imm64,
               sub_register64bit_immediate32bit(buf, dst, imm))

PopReg(R, lim) ==
    /\ Len(calls) < lim
    /\ \E reg \in R :
          Call("pop_register64bit", reg, NoReg, 0, NoOp.imm64,
               pop_register64bit(buf, reg))

PushReg(R, lim) ==
    /\ Len(calls) < lim
    /\ \E reg \in R :
          Call("push_register64bit", reg, NoReg, 0, NoOp.imm64,
               push_register64bit(buf, reg))

\* buf.clear(), as the unit tests do before each call.
Clear ==
    /\ buf' = clear(buf)
    /\ prev' = buf'
    /\ last' = NoOp
    /\ calls' = << >>
    /\ UNCHANGED ccvars
    /\ UNCHANGED bcvars

(***************************************************************************)
(* Calling-convention actions                                              *)
(***************************************************************************)

\* The allocator claims the next free register: gp_free_regs.pop().
ClaimReg ==
    /\ gp_free_regs # << >>
    /\ claimed' = Append(claimed, gp_free_regs[Len(gp_free_regs)])
    /\ gp_free_regs' = SubSeq(gp_free_regs, 1, Len(gp_free_regs) - 1)
    /\ UNCHANGED <<conv, probe, stack_sizes>>
    /\ UNCHANGED asmvars
    /\ UNCHANGED bcvars

\* A consumer looks a register up in the tables of the convention.
Lookup ==
    /\ \E r \in X86_64GPReg :
          probe' = [reg |-> r,
                    param |-> r \in Elems(gp_param_regs(conv)),
                    return |-> r \in Elems(gp_return_regs(conv)),
                    caller_saved |-> r \in caller_saved_regs(conv),
                    callee_saved |-> r \in callee_saved_regs(conv)]
    /\ UNCHANGED <<conv, gp_free_regs, claimed, stack_sizes>>
    /\ UNCHANGED asmvars
    /\ UNCHANGED bcvars

\* The frame layout reads the two stack-reservation constants of the convention.
ReadStackSizes ==
    /\ stack_sizes' = [read |-> TRUE,
                       shadow_space_size |-> shadow_space_size(conv),
                       red_zone_size |-> red_zone_size(conv)]
    /\ UNCHANGED <<conv, gp_free_regs, claimed, probe>>
    /\ UNCHANGED asmvars
    /\ UNCHANGED bcvars

(***************************************************************************)
(* Actions of the bitcode helpers: one call of a function of bitcode.rs.   *)
(* A panic ends the compilation: nothing is called after it.               *)
(***************************************************************************)

\* The environment the helpers work on.
Env == [module |-> module, builder |-> builder, layout_ids |-> layout_ids]

\* The helper op was called and ended as r says.
Helper(op, r) ==
    /\ module' = r.module
    /\ builder' = r.builder
    /\ layout_ids' = r.layout_ids
    /\ outcome' = [n |-> outcome.n + 1, op |-> op, fn_name |-> r.fn_name,
                   status |-> r.status, ret |-> r.ret, msg |-> r.msg,
                   existed |-> get_function(module, r.fn_name) # NoFunction,
                   module_before |-> module, builder_before |-> builder]
    /\ requested' = IF op \in WrapperOps THEN requested \cup { r.fn_name } ELSE requested
    /\ UNCHANGED asmvars
    /\ UNCHANGED ccvars

Running == outcome.status # "panic" /\ outcome.n < MaxBuilds

CallBitcodeFn ==
    /\ Running
    /\ \E fn_name \in BitcodeNames :
          Helper("call_bitcode_fn", call_bitcode_fn(Env, << "arg" >>, fn_name))

CallVoidBitcodeFn ==
    /\ Running
    /\ \E fn_name \in BitcodeNames :
          Helper("call_void_bitcode_fn", call_void_bitcode_fn(Env, << "arg" >>, fn_name))

BuildTransformCaller ==
    /\ Running
    /\ \E function \in RocFunctions, closure_data_layout \in ClosureDataLayouts,
          argument_layouts \in ArgumentLayouts :
          Helper("build_transform_caller",
                 build_transform_caller(Env, get_function(module, function),
                                        closure_data_layout, argument_layouts))

BuildIncNWrapper ==
    /\ Running
    /\ \E layout \in Layouts :
          Helper("build_inc_n_wrapper", build_inc_n_wrapper(Env, layout))

BuildIncWrapper ==
    /\ Running
    /\ \E layout \in Layouts :
          Helper("build_inc_wrapper", build_inc_wrapper(Env, layout))

BuildDecWrapper ==
    /\ Running
    /\ \E layout \in Layouts :
          Helper("build_dec_wrapper", build_dec_wrapper(Env, layout))

BuildEqWrapper ==
    /\ Running
    /\ \E layout \in Layouts :
          Helper("build_eq_wrapper", build_eq_wrapper(Env, layout))

BuildCompareWrapper ==
    /\ Running
    /\ \E roc_function \in RocFunctions, closure_data_layout \in ClosureDataLayouts,
          layout \in Layouts :
          Helper("build_compare_wrapper",
                 build_compare_wrapper(Env, get_function(module, roc_function),
                                       closure_data_layout, layout))

(***************************************************************************)
(* Specifications                                                          *)
(***************************************************************************)

\* The unit tests: the buffer is cleared, then one operation is called with
\* any register and any immediate.
Next ==
    \/ AddRegImm32(X86_64GPReg, Imm32s, 1)
    \/ AddRegReg(X86_64GPReg, 1)
    \/ CmovlRegReg(X86_64GPReg, 1)
    \/ MovRegImm32(X86_64GPReg, Imm32s, 1)
    \/ MovRegImm64(X86_64GPReg, Imm64s, 1)
    \/ MovRegReg(X86_64GPReg, 1)
    \/ MovRegStack(X86_64GPReg, Imm32s, 1)
    \/ MovStackReg(X86_64GPReg, Imm32s, 1)
    \/ NegReg(X86_64GPReg, 1)
    \/ Ret(1)
    \/ SubRegImm32(X86_64GPReg, Imm32s, 1)
    \/ PopReg(X86_64GPReg, 1)
    \/ PushReg(X86_64GPReg, 1)
    \/ Clear

Spec == Init /\ [][Next]_vars

\* A code generator: up to MaxInstrs operations called in sequence on one
\* buffer that is not cleared in between.
NextSeq ==
    \/ AddRegImm32(SeqRegs, SeqImm32s, MaxInstrs)
    \/ AddRegReg(SeqRegs, MaxInstrs)
    \/ CmovlRegReg(SeqRegs, MaxInstrs)
    \/ MovRegImm32(SeqRegs, SeqImm32s, MaxInstrs)
    \/ MovRegImm64(SeqRegs, SeqImm64s, MaxInstrs)
    \/ MovRegReg(SeqRegs, MaxInstrs)
    \/ MovRegStack(SeqRegs, SeqImm32s, MaxInstrs)
    \/ MovStackReg(SeqRegs, SeqImm32s, MaxInstrs)
    \/ NegReg(SeqRegs, MaxInstrs)
    \/ Ret(MaxInstrs)
    \/ SubRegImm32(SeqRegs, SeqImm32s, MaxInstrs)
    \/ PopReg(SeqRegs, MaxInstrs)
    \/ PushReg(SeqRegs, MaxInstrs)

SpecSeq == Init /\ [][NextSeq]_vars

\* The register allocator and the other readers of the convention tables.
NextCC ==
    \/ ClaimReg
    \/ Lookup
    \/ ReadStackSizes

SpecCC == InitCC /\ [][NextCC]_vars

\* The LLVM backend: up to MaxBuilds calls of the helpers of bitcode.rs on one
\* module.
NextBC ==
    \/ CallBitcodeFn
    \/ CallVoidBitcodeFn
    \/ BuildTransformCaller
    \/ BuildIncNWrapper
    \/ BuildIncWrapper
    \/ BuildDecWrapper
    \/ BuildEqWrapper
    \/ BuildCompareWrapper

SpecBC == InitBC /\ [][NextBC]_vars

(***************************************************************************)
(* Properties of the encoder                                               *)
(***************************************************************************)

\* The bytes the last operation appended.
Emitted == SubSeq(buf.data, Len(prev.data) + 1, Len(buf.data))

\* The bytes a call that takes the buffer from v to w appended.
Appended(v, w) == SubSeq(w.data, Len(v.data) + 1, Len(w.data))

IsByte(b) == b \in 0..255

\* 1 when the encoding of register r exceeds 7, else 0.
Ext(r) == IF AsU8(r) > 7 THEN 1 ELSE 0

\* The i32 that four bytes are the little-endian two's-complement encoding of.
I32FromLeBytes(b) ==
    b[1] + 256 * b[2] + 65536 * b[3]
        + 16777216 * (IF b[4] >= 128 THEN b[4] - 256 ELSE b[4])

\* The i64 (as limbs) that eight bytes are the little-endian two's-complement
\* encoding of.
I64FromLeBytes(b) ==
    << b[1] + 256 * b[2],
       b[3] + 256 * b[4],
       b[5] + 256 * b[6],
       b[7] + 256 * (IF b[8] >= 128 THEN b[8] - 256 ELSE b[8]) >>

\* bytes is exactly the 4-byte little-endian encoding of the i32 imm.
IsLe32(bytes, imm) ==
    /\ Len(bytes) = 4
    /\ \A i \in 1..4 : IsByte(bytes[i])
    /\ I32FromLeBytes(bytes) = imm

\* bytes is exactly the 8-byte little-endian encoding of the i64 imm.
IsLe64(bytes, imm) ==
    /\ Len(bytes) = 8
    /\ \A i \in 1..8 : IsByte(bytes[i])
    /\ I64FromLeBytes(bytes) = imm

\* -2^31 <= imm <= 2^31 - 1 for an i64 imm: its upper 33 bits are all equal.
InI32Range(imm) ==
    \/ imm[4] = 0 /\ imm[3] = 0 /\ imm[2] < \h8000
    \/ imm[4] = -1 /\ imm[3] = \hFFFF /\ imm[2] >= \h8000

\* C1: mov_register64bit_immediate64bit, for every register and every 64-bit
\* immediate: when the immediate lies in -2^31 .. 2^31-1 (ends included) it
\* appends exactly the 7 bytes mov_register64bit_immediate32bit appends for
\* `imm as i32`; otherwise it appends exactly 10 bytes: 0x48 (+1 when the
\* register's encoding exceeds 7), 0xB8 + encoding mod 8, and the 8-byte
\* little-endian encoding of the immediate.
C1_MovImm64RangeOptimised ==
    last.op = "mov_register64bit_immediate64bit" =>
        IF InI32Range(last.imm64)
            THEN /\ Len(Emitted) = 7
                 /\ Emitted = Appended(prev,
                        mov_register64bit_immediate32bit(prev, last.dst, I64AsI32(last.imm64)))
            ELSE /\ Len(Emitted) = 10
                 /\ Emitted[1] = \h48 + Ext(last.dst)
                 /\ Emitted[2] = \hB8 + (AsU8(last.dst) % 8)
                 /\ IsLe64(SubSeq(Emitted, 3, 10), last.imm64)

\* C1 witness: i32::MAX + 1, the first value outside the range, moved to R15,
\* took the 10-byte form.
C1_Witness ==
    /\ last.op = "mov_register64bit_immediate64bit"
    /\ last.dst = "R15"
    /\ last.imm64 = << 0, \h8000, 0, 0 >>
    /\ Emitted = << \h49, \hBF, 0, 0, 0, \h80, 0, 0, 0, 0 >>

\* C2: for every pair of registers, add r,r / mov r,r / cmovl r,r emit
\* REX = 0x48 + (1 if rm > 7) + (4 if reg > 7) and ModRM = 0xC0 + rm mod 8 +
\* 8 * (reg mod 8), with (rm, reg) = (dst, src) for add and mov and (src, dst)
\* for cmovl; the output is [REX, 0x01, ModRM], [REX, 0x89, ModRM] and
\* [REX, 0x0F, 0x4C, ModRM].
C2_RegRegForms ==
    LET rex(rm, reg) == \h48 + Ext(rm) + 4 * Ext(reg)
        modrm(rm, reg) == \hC0 + (AsU8(rm) % 8) + 8 * (AsU8(reg) % 8)
    IN  /\ last.op = "add_register64bit_register64bit" =>
              Emitted = << rex(last.dst, last.src), \h01, modrm(last.dst, last.src) >>
        /\ last.op = "mov_register64bit_register64bit" =>
              Emitted = << rex(last.dst, last.src), \h89, modrm(last.dst, last.src) >>
        /\ last.op = "cmovl_register64bit_register64bit" =>
              Emitted = << rex(last.src, last.dst), \h0F, \h4C, modrm(last.src, last.dst) >>

\* C2 witness: cmovl R15, RAX: only the reg extension bit is set.
C2_Witness ==
    /\ last.op = "cmovl_register64bit_register64bit"
    /\ last.dst = "R15"
    /\ last.src = "RAX"
    /\ Emitted = << \h4C, \h0F, \h4C, \hF8 >>

\* C3: for every register and every 32-bit immediate, add/mov/sub with an
\* imm32 emit REX = 0x48 (+1 if the encoding exceeds 7), then [0x81, 0xC0 + r
\* mod 8] (add), [0xC7, 0xC0 + r mod 8] (mov), [0x81, 0xE8 + r mod 8] (sub),
\* then exactly the 4-byte little-endian encoding of the immediate, 7 bytes in
\* all; neg emits [REX, 0xF7, 0xD8 + r mod 8], 3 bytes in all.
C3_SingleRegForms ==
    LET rex == \h48 + Ext(last.dst)
        low == AsU8(last.dst) % 8
        imm_form(opcode, base) ==
            /\ Len(Emitted) = 7
            /\ SubSeq(Emitted, 1, 3) = << rex, opcode, base + low >>
            /\ IsLe32(SubSeq(Emitted, 4, 7), last.imm32)
    IN  /\ last.op = "add_register64bit_immediate32bit" => imm_form(\h81, \hC0)
        /\ last.op = "mov_register64bit_immediate32bit" => imm_form(\hC7, \hC0)
        /\ last.op = "sub_register64bit_immediate32bit" => imm_form(\h81, \hE8)
        /\ last.op = "neg_register64bit" => Emitted = << rex, \hF7, \hD8 + low >>

\* C3 witness: sub R15, -1.
C3_Witness ==
    /\ last.op = "sub_register64bit_immediate32bit"
    /\ last.dst = "R15"
    /\ last.imm32 = -1
    /\ Emitted = << \h49, \h81, \hEF, \hFF, \hFF, \hFF, \hFF >>

\* C4: push and pop append one byte (0x50 + encoding, 0x58 + encoding) and no
\* prefix when the register's encoding is at most 7, and the two bytes
\* [0x41, base + encoding mod 8] when it exceeds 7; the byte 0x40 (a REX with
\* no extension bit) is never emitted.
C4_PushPop ==
    LET form(base) ==
            /\ Emitted = IF AsU8(last.dst) <= 7
                            THEN << base + AsU8(last.dst) >>
                            ELSE << \h41, base + (AsU8(last.dst) % 8) >>
            /\ \A i \in 1..Len(Emitted) : Emitted[i] # \h40
    IN  /\ last.op = "push_register64bit" => form(\h50)
        /\ last.op = "pop_register64bit" => form(\h58)

\* C4 witness: pop R15 emits the prefix 0x41 and the opcode 0x5F.
C4_Witness ==
    /\ last.op = "pop_register64bit"
    /\ last.dst = "R15"
    /\ Emitted = << \h41, \h5F >>

\* C5: for every register and every 32-bit offset the stack load and the
\* stack store append exactly 8 bytes: REX = 0x48 (+4 if the encoding exceeds
\* 7), the opcode (0x8B load, 0x89 store), ModRM = 0x84 + 8 * (r mod 8),
\* SIB = 0x24, the 4-byte little-endian offset; the load and the store of one
\* register and offset differ in the opcode byte only; no shorter
\* displacement form is chosen.
C5_StackForms ==
    LET form(r, opcode) ==
            /\ Len(Emitted) = 8
            /\ SubSeq(Emitted, 1, 4) =
                  << \h48 + 4 * Ext(r), opcode, \h84 + 8 * (AsU8(r) % 8), \h24 >>
            /\ IsLe32(SubSeq(Emitted, 5, 8), last.imm32)
        same_but_opcode(other) ==
            /\ Len(other) = Len(Emitted)
            /\ \A i \in 1..Len(Emitted) : i # 2 => other[i] = Emitted[i]
            /\ other[2] # Emitted[2]
    IN  /\ last.op = "mov_register64bit_stackoffset32bit" =>
              /\ form(last.dst, \h8B)
              /\ same_but_opcode(Appended(prev,
                    mov_stackoffset32bit_register64bit(prev, last.imm32, last.dst)))
        /\ last.op = "mov_stackoffset32bit_register64bit" =>
              /\ form(last.src, \h89)
              /\ same_but_opcode(Appended(prev,
                    mov_register64bit_stackoffset32bit(prev, last.src, last.imm32)))

\* C5 witness: the load of R15 from offset 0 still carries a 4-byte offset.
C5_Witness ==
    /\ last.op = "mov_register64bit_stackoffset32bit"
    /\ last.dst = "R15"
    /\ last.imm32 = 0
    /\ Emitted = << \h4C, \h8B, \hBC, \h24, 0, 0, 0, 0 >>

\* The call c made on the buffer v.
EncodeCall(v, c) ==
    CASE c.op = "add_register64bit_immediate32bit" ->
            add_register64bit_immediate32bit(v, c.dst, c.imm32)
      [] c.op = "add_register64bit_register64bit" ->
            add_register64bit_register64bit(v, c.dst, c.src)
      [] c.op = "cmovl_register64bit_register64bit" ->
            cmovl_register64bit_register64bit(v, c.dst, c.src)
      [] c.op = "mov_register64bit_immediate32bit" ->
            mov_register64bit_immediate32bit(v, c.dst, c.imm32)
      [] c.op = "mov_register64bit_immediate64bit" ->
            mov_register64bit_immediate64bit(v, c.dst, c.imm64)
      [] c.op = "mov_register64bit_register64bit" ->
            mov_register64bit_register64bit(v, c.dst, c.src)
      [] c.op = "mov_register64bit_stackoffset32bit" ->
            mov_register64bit_stackoffset32bit(v, c.dst, c.imm32)
      [] c.op = "mov_stackoffset32bit_register64bit" ->
            mov_stackoffset32bit_register64bit(v, c.imm32, c.src)
      [] c.op = "neg_register64bit" -> neg_register64bit(v, c.dst)
      [] c.op = "ret" -> ret(v)
      [] c.op = "sub_register64bit_immediate32bit" ->
            sub_register64bit_immediate32bit(v, c.dst, c.imm32)
      [] c.op = "pop_register64bit" -> pop_register64bit(v, c.dst)
      [] c.op = "push_register64bit" -> push_register64bit(v, c.dst)

EmptyBuf == [data |-> << >>, cap |-> 0, grows |-> 0]

\* The encodings of the calls cs, each made on an empty buffer, one after another.
RECURSIVE Concat(_)
Concat(cs) ==
    IF cs = << >>
        THEN << >>
        ELSE Concat(SubSeq(cs, 1, Len(cs) - 1)) \o EncodeCall(EmptyBuf, cs[Len(cs)]).data

\* C6: in any sequence of encoder operations on one buffer that is not cleared,
\* each operation leaves the bytes already in the buffer where they are and
\* appends exactly the bytes it appends to an empty buffer (ret: the byte
\* 0xC3), so the buffer is the concatenation, in call order, of the
\* operations' encodings.
C6_AppendOnly ==
    /\ last.op # "none" =>
          /\ Len(buf.data) > Len(prev.data)
          /\ SubSeq(buf.data, 1, Len(prev.data)) = prev.data
          /\ Emitted = EncodeCall(EmptyBuf, last).data
    /\ last.op = "ret" => Emitted = << \hC3 >>
    /\ buf.data = Concat(calls)

\* C6 witness: a ret called third, on a buffer that holds add R15, RAX and then
\* a push of R15.
C6_Witness ==
    /\ Len(calls) = 3
    /\ calls[1].op = "add_register64bit_register64bit"
    /\ calls[1].dst = "R15"
    /\ calls[1].src = "RAX"
    /\ calls[2].op = "push_register64bit"
    /\ calls[2].dst = "R15"
    /\ last.op = "ret"
    /\ buf.data = << \h49, \h01, \hC7, \h41, \h57, \hC3 >>

(***************************************************************************)
(* Properties of the calling-convention tables                             *)
(***************************************************************************)

\* C7: in each convention caller_saved_regs and callee_saved_regs are disjoint
\* and together hold all 16 registers, so every register looked up, parameter
\* and return registers included, is in exactly one of the two.
C7_SavedRegsPartition ==
    /\ caller_saved_regs(conv) \cap callee_saved_regs(conv) = { }
    /\ caller_saved_regs(conv) \cup callee_saved_regs(conv) = X86_64GPReg
    /\ probe.reg # NoReg => (probe.caller_saved # probe.callee_saved)

\* C7 witness: RDX, a parameter and a return register of System V, was looked
\* up and found caller-saved only.
C7_Witness ==
    /\ conv = "X86_64SystemV"
    /\ probe.reg = "RDX"
    /\ probe.param
    /\ probe.return
    /\ probe.caller_saved
    /\ ~probe.callee_saved

\* C8 as stated: no table holds the stack pointer or the frame pointer, but for
\* the stack pointer in caller_saved_regs.
C8_AsStated ==
    probe.reg \in { stack_pointer(conv), frame_pointer(conv) } =>
        /\ ~probe.param
        /\ ~probe.return
        /\ ~probe.callee_saved
        /\ probe.caller_saved => probe.reg = stack_pointer(conv)

\* C8 (amended): in each convention neither gp_param_regs nor gp_return_regs
\* holds stack_pointer() or frame_pointer(); frame_pointer() is in
\* callee_saved_regs and not in caller_saved_regs; stack_pointer() is in
\* caller_saved_regs only for X86_64SystemV and in callee_saved_regs only for
\* X86_64WindowsFastcall.
C8_PointerRegs ==
    /\ probe.reg \in { stack_pointer(conv), frame_pointer(conv) } =>
          ~probe.param /\ ~probe.return
    /\ probe.reg = frame_pointer(conv) =>
          probe.callee_saved /\ ~probe.caller_saved
    /\ probe.reg = stack_pointer(conv) =>
          IF conv = "X86_64SystemV"
              THEN probe.caller_saved /\ ~probe.callee_saved
              ELSE probe.callee_saved /\ ~probe.caller_saved

\* C8 witness: the stack pointer was looked up in the Windows tables and found
\* callee-saved.
C8_Witness ==
    /\ conv = "X86_64WindowsFastcall"
    /\ probe.reg = stack_pointer(conv)
    /\ probe.callee_saved

IsPrefix(s, t) == Len(s) <= Len(t) /\ \A i \in 1..Len(s) : s[i] = t[i]

\* C9 as stated: popping the System V free list yields RDI, RSI, RDX, RCX, RAX
\* first, and a callee-saved register only after every caller-saved one.
C9_AsStated ==
    conv = "X86_64SystemV" =>
        /\ \A i \in 1..Len(claimed) :
              i <= 5 => claimed[i] = << "RDI", "RSI", "RDX", "RCX", "RAX" >>[i]
        /\ \A i \in 1..Len(claimed) :
              claimed[i] \in callee_saved_regs(conv) =>
                  Elems(gp_free_regs) \cap caller_saved_regs(conv) = { }

\* C9 (amended): popping the System V free list yields R11, R10, R9, R8, then
\* RDI, RSI, RDX, RCX, RAX, and only after all of those (every caller-saved
\* register of the list) any callee-saved register.
C9_SystemVPopOrder ==
    conv = "X86_64SystemV" =>
        /\ IsPrefix(SubSeq(claimed, 1, IF Len(claimed) < 9 THEN Len(claimed) ELSE 9),
                    << "R11", "R10", "R9", "R8", "RDI", "RSI", "RDX", "RCX", "RAX" >>)
        /\ \A i \in 1..Len(claimed) :
              claimed[i] \in callee_saved_regs(conv) =>
                  /\ i > 9
                  /\ Elems(gp_free_regs) \cap caller_saved_regs(conv) = { }

\* C9 witness: the tenth pop yields the first callee-saved register.
C9_Witness ==
    /\ conv = "X86_64SystemV"
    /\ Len(claimed) = 10
    /\ claimed[9] = "RAX"
    /\ claimed[10] \in callee_saved_regs(conv)

\* C10: in both conventions every callee-saved register of
\* gp_default_free_regs stands at a lower index than every caller-saved one,
\* so a pop never yields a callee-saved register while a caller-saved register
\* is still in the list.
C10_CalleeSavedLast ==
    LET free == gp_default_free_regs(conv)
    IN  /\ \A i \in 1..Len(free), j \in 1..Len(free) :
              (free[i] \in callee_saved_regs(conv) /\ free[j] \in caller_saved_regs(conv))
                  => i < j
        /\ (claimed # << >> /\ claimed[Len(claimed)] \in callee_saved_regs(conv)) =>
              Elems(gp_free_regs) \cap caller_saved_regs(conv) = { }

\* C10 witness: the Windows list has given out its seven caller-saved registers
\* and then a callee-saved one, with callee-saved registers still free.
C10_Witness ==
    /\ conv = "X86_64WindowsFastcall"
    /\ Len(claimed) = 8
    /\ claimed[8] \in callee_saved_regs(conv)
    /\ gp_free_regs # << >>

\* C11 as stated: in both conventions popping yields every caller-saved
\* register that is not a parameter register before any parameter register.
C11_AsStated ==
    (\E i \in 1..Len(claimed) : claimed[i] \in Elems(gp_param_regs(conv))) =>
        Elems(gp_free_regs)
            \cap (caller_saved_regs(conv) \ Elems(gp_param_regs(conv))) = { }

\* C11 (amended): in both conventions the caller-saved registers that are
\* neither parameter nor return registers (R10 and R11) occupy the back of
\* gp_default_free_regs: popping yields every one of them before it yields
\* any parameter register. (RAX, caller-saved and not a parameter register,
\* is a return register and comes out after the parameter registers.)
C11_ScratchRegsFirst ==
    (\E i \in 1..Len(claimed) : claimed[i] \in Elems(gp_param_regs(conv))) =>
        Elems(gp_free_regs)
            \cap (caller_saved_regs(conv)
                    \ (Elems(gp_param_regs(conv)) \cup Elems(gp_return_regs(conv)))) = { }

\* C11 witness: System V has handed out R11 and R10 and then its first
\* parameter register, R9, while RAX is still free.
C11_Witness ==
    /\ conv = "X86_64SystemV"
    /\ claimed = << "R11", "R10", "R9" >>
    /\ "RAX" \in Elems(gp_free_regs)

NoDuplicates(s) == \A i \in 1..Len(s), j \in 1..Len(s) : s[i] = s[j] => i = j

\* C12: System V has exactly the 6 parameter registers RDI, RSI, RDX, RCX, R8,
\* R9, in that order, and the 2 return registers RAX, RDX; Windows fastcall has
\* exactly the 4 parameter registers RCX, RDX, R8, R9 and the 1 return register
\* RAX; no register repeats within a list.
C12_ParamAndReturnTables ==
    LET params == IF conv = "X86_64SystemV"
                      THEN << "RDI", "RSI", "RDX", "RCX", "R8", "R9" >>
                      ELSE << "RCX", "RDX", "R8", "R9" >>
        returns == IF conv = "X86_64SystemV" THEN << "RAX", "RDX" >> ELSE << "RAX" >>
    IN  /\ gp_param_regs(conv) = params
        /\ gp_return_regs(conv) = returns
        /\ Len(gp_param_regs(conv)) = (IF conv = "X86_64SystemV" THEN 6 ELSE 4)
        /\ Len(gp_return_regs(conv)) = (IF conv = "X86_64SystemV" THEN 2 ELSE 1)
        /\ NoDuplicates(gp_param_regs(conv))
        /\ NoDuplicates(gp_return_regs(conv))
        /\ probe.reg # NoReg =>
              /\ probe.param = (probe.reg \in Elems(params))
              /\ probe.return = (probe.reg \in Elems(returns))

\* C12 witness: RDI, the first parameter register of System V, was looked up
\* in the Windows tables and is no parameter register there.
C12_Witness ==
    /\ conv = "X86_64WindowsFastcall"
    /\ probe.reg = "RDI"
    /\ ~probe.param
    /\ ~probe.return

\* C13: shadow_space_size = 0 and red_zone_size = 128 for System V,
\* shadow_space_size = 32 and red_zone_size = 0 for Windows fastcall; in each
\* convention exactly one of the two is non-zero.
C13_StackReservation ==
    /\ shadow_space_size(conv) = (IF conv = "X86_64SystemV" THEN 0 ELSE 32)
    /\ red_zone_size(conv) = (IF conv = "X86_64SystemV" THEN 128 ELSE 0)
    /\ stack_sizes.read =>
          /\ stack_sizes.shadow_space_size = (IF conv = "X86_64SystemV" THEN 0 ELSE 32)
          /\ stack_sizes.red_zone_size = (IF conv = "X86_64SystemV" THEN 128 ELSE 0)
          /\ (stack_sizes.shadow_space_size # 0) # (stack_sizes.red_zone_size # 0)

\* C13 witness: the sizes of Windows fastcall were read: 32 bytes of shadow
\* space and no red zone.
C13_Witness ==
    /\ conv = "X86_64WindowsFastcall"
    /\ stack_sizes.read
    /\ stack_sizes.shadow_space_size = 32
    /\ stack_sizes.red_zone_size = 0

\* C19: in each convention gp_default_free_regs holds every register other
\* than stack_pointer() and frame_pointer() exactly once and neither of those
\* two, so popping it until it is empty yields 14 pairwise distinct registers
\* and never RSP or RBP.
C19_FreeRegsExcludePointers ==
    LET free == gp_default_free_regs(conv)
        pointers == { stack_pointer(conv), frame_pointer(conv) }
    IN  /\ Elems(free) = X86_64GPReg \ pointers
        /\ NoDuplicates(free)
        /\ NoDuplicates(claimed)
        /\ Elems(claimed) \cap { "RSP", "RBP" } = { }
        /\ Elems(claimed) \cap pointers = { }
        /\ gp_free_regs = << >> =>
              Len(claimed) = 14 /\ Elems(claimed) = X86_64GPReg \ pointers

\* C19 witness: the free list was popped until it was empty.
C19_Witness ==
    /\ conv = "X86_64WindowsFastcall"
    /\ gp_free_regs = << >>
    /\ Len(claimed) = 14

(***************************************************************************)
(* Properties of the encoder's buffer handling and of its byte arithmetic  *)
(***************************************************************************)

\* The bytes a multi-append operation reserves before its first append; 0 for
\* an operation that appends once.
ReservedBy(c) ==
    CASE c.op \in { "add_register64bit_immediate32bit",
                    "mov_register64bit_immediate32bit",
                    "sub_register64bit_immediate32bit" } -> 7
      [] c.op = "mov_register64bit_immediate64bit" ->
            IF InI32Range(c.imm64) THEN 7 ELSE 10
      [] c.op \in { "mov_register64bit_stackoffset32bit",
                    "mov_stackoffset32bit_register64bit" } -> 8
      [] OTHER -> 0

\* C16: add imm32, mov imm32, sub imm32, the 10-byte mov imm64, the stack load
\* and the stack store reserve exactly the bytes they append (7, 7, 7, 10, 8,
\* 8) before their first append, so none of their appends grows the buffer,
\* whatever its length and capacity on entry; an in-range mov imm64 reserves
\* through the imm32 operation it calls.
C16_ReserveBeforeAppend ==
    ReservedBy(last) # 0 =>
        /\ Len(Emitted) = ReservedBy(last)
        /\ buf.cap = reserve(prev, ReservedBy(last)).cap
        /\ buf.cap - Len(prev.data) >= ReservedBy(last)
        /\ buf.grows = prev.grows

\* C16 witness: a 10-byte mov imm64 called second, on a buffer that was full:
\* the reservation grew the buffer and no append did.
C16_Witness ==
    /\ Len(calls) = 2
    /\ last.op = "mov_register64bit_immediate64bit"
    /\ ~InI32Range(last.imm64)
    /\ Len(prev.data) > 0
    /\ prev.cap = Len(prev.data)
    /\ buf.cap > prev.cap
    /\ buf.grows = prev.grows
    /\ Len(Emitted) = 10

\* The operations that take a 64-bit operand size and so start with REX.W.
Rex64Ops ==
    { "add_register64bit_immediate32bit", "add_register64bit_register64bit",
      "cmovl_register64bit_register64bit", "mov_register64bit_immediate32bit",
      "mov_register64bit_immediate64bit", "mov_register64bit_register64bit",
      "mov_register64bit_stackoffset32bit", "mov_stackoffset32bit_register64bit",
      "neg_register64bit", "sub_register64bit_immediate32bit" }

PushPopOps == { "push_register64bit", "pop_register64bit" }

\* C17: every u8 sum the encoder forms (REX, ModRM, opcode + register) stays
\* in 0..255 for all 16 registers in every operand position; the REX byte is
\* one of 0x48, 0x49, 0x4C, 0x4D for the 64-bit forms and is 0x41 for the
\* prefix of push and pop.
C17_ByteArithmeticInRange ==
    /\ \A r \in X86_64GPReg :
          /\ add_rm_extension(r, REX_W) \in { \h48, \h49 }
          /\ add_opcode_extension(r, REX_W) \in { \h48, \h49 }
          /\ add_reg_extension(r, REX_W) \in { \h48, \h4C }
          /\ add_opcode_extension(r, REX) \in { \h40, \h41 }
          /\ IsByte(Shl3(AsU8(r) % 8))
          /\ \A q \in X86_64GPReg :
                /\ add_reg_extension(q, add_rm_extension(r, REX_W))
                      \in { \h48, \h49, \h4C, \h4D }
                /\ IsByte(\hC0 + (AsU8(r) % 8) + Shl3(AsU8(q) % 8))
    /\ \A i \in 1..Len(Emitted) : IsByte(Emitted[i])
    /\ last.op \in Rex64Ops => Emitted[1] \in { \h48, \h49, \h4C, \h4D }
    /\ last.op \in PushPopOps =>
          /\ Len(Emitted) = (IF AsU8(last.dst) > 7 THEN 2 ELSE 1)
          /\ Len(Emitted) = 2 => Emitted[1] = \h41

\* C17 witness: cmovl R15, R15, the largest REX (0x4D) and the largest ModRM
\* (0xFF) there are.
C17_Witness ==
    /\ last.op = "cmovl_register64bit_register64bit"
    /\ last.dst = "R15"
    /\ last.src = "R15"
    /\ Emitted = << \h4D, \h0F, \h4C, \hFF >>

\* The 4-bit register encoding a decoder reads: 8 * extension bit + 3-bit field.
RexB(rex) == rex % 2
RexR(rex) == (rex \div 4) % 2
LowField(byte) == byte % 8
MidField(byte) == (byte \div 8) % 8
DecodeReg(ext, field) == 8 * ext + field

\* The register operands an operation takes.
DstRegs(op) ==
    IF op \in { "mov_stackoffset32bit_register64bit", "ret", "none" }
        THEN { NoReg } ELSE X86_64GPReg

SrcRegs(op) ==
    IF op \in { "add_register64bit_register64bit", "cmovl_register64bit_register64bit",
                "mov_register64bit_register64bit", "mov_stackoffset32bit_register64bit" }
        THEN X86_64GPReg ELSE { NoReg }

\* C18: the encoding is injective in the register operands and decodable: for
\* every operation, two calls that differ in a register operand emit different
\* bytes, and each operand's 4-bit encoding is 8 * its REX extension bit (bit 0
\* for an r/m or opcode-embedded register, bit 2 for a ModRM reg-field
\* register, 0 when no REX is emitted) plus the 3-bit field that holds it, for
\* all 16 registers and all 256 register pairs.
C18_RegistersDecodable ==
    LET e == Emitted
        rm_at(p) == DecodeReg(RexB(e[1]), LowField(e[p]))
        reg_at(p) == DecodeReg(RexR(e[1]), MidField(e[p]))
    IN  /\ last.op \in { "add_register64bit_register64bit",
                         "mov_register64bit_register64bit" } =>
              rm_at(3) = AsU8(last.dst) /\ reg_at(3) = AsU8(last.src)
        /\ last.op = "cmovl_register64bit_register64bit" =>
              rm_at(4) = AsU8(last.src) /\ reg_at(4) = AsU8(last.dst)
        /\ last.op \in { "add_register64bit_immediate32bit",
                         "mov_register64bit_immediate32bit",
                         "sub_register64bit_immediate32bit",
                         "neg_register64bit" } =>
              rm_at(3) = AsU8(last.dst)
        /\ last.op = "mov_register64bit_immediate64bit" =>
              IF InI32Range(last.imm64)
                  THEN rm_at(3) = AsU8(last.dst)
                  ELSE rm_at(2) = AsU8(last.dst)
        /\ last.op = "mov_register64bit_stackoffset32bit" =>
              reg_at(3) = AsU8(last.dst)
        /\ last.op = "mov_stackoffset32bit_register64bit" =>
              reg_at(3) = AsU8(last.src)
        /\ last.op \in PushPopOps =>
              IF Len(e) = 2
                  THEN rm_at(2) = AsU8(last.dst)
                  ELSE DecodeReg(0, LowField(e[1])) = AsU8(last.dst)
        /\ last.op # "none" =>
              \A d \in DstRegs(last.op), r \in SrcRegs(last.op) :
                  (d # last.dst \/ r # last.src) =>
                      EncodeCall(prev, [last EXCEPT !.dst = d, !.src = r]).data # buf.data

\* C18 witness: add RAX, R8 emits 4C 01 C0; the operands exchanged would emit
\* 49 01 C0: the two differ in the REX byte only.
C18_Witness ==
    /\ last.op = "add_register64bit_register64bit"
    /\ last.dst = "RAX"
    /\ last.src = "R8"
    /\ Emitted = << \h4C, \h01, \hC0 >>
    /\ EncodeCall(prev, [last EXCEPT !.dst = "R8", !.src = "RAX"]).data
          = prev.data \o << \h49, \h01, \hC0 >>

(***************************************************************************)
(* Properties of the bitcode helpers                                       *)
(***************************************************************************)

\* C14: call_bitcode_fn and call_void_bitcode_fn, called with a name the
\* module does not hold, panic with a message that names the function and
\* hints at rebuilding the bitcode, before any call is built: the module and
\* the builder are as they were. When the module holds the name, exactly one
\* call is built, and its calling convention is the callee's own.
C14_MissingBuiltinAborts ==
    outcome.op \in { "call_bitcode_fn", "call_void_bitcode_fn" } =>
        /\ module = outcome.module_before
        /\ IF get_function(outcome.module_before, outcome.fn_name) = NoFunction
              THEN /\ outcome.status = "panic"
                   /\ outcome.msg.text = UnrecognizedBuiltin
                   /\ outcome.msg.fn_name = outcome.fn_name
                   /\ builder = outcome.builder_before
              ELSE LET callee == module[get_function(module, outcome.fn_name)]
                   IN  /\ Len(builder) = Len(outcome.builder_before) + 1
                       /\ SubSeq(builder, 1, Len(builder) - 1) = outcome.builder_before
                       /\ builder[Len(builder)].callee = outcome.fn_name
                       /\ builder[Len(builder)].cc = callee.cc
                       /\ outcome.msg.text # UnrecognizedBuiltin

\* C14 witness: after a call to a function with the fast convention was
\* built, a builtin the module does not hold was asked for.
C14_Witness ==
    /\ outcome.op = "call_void_bitcode_fn"
    /\ outcome.fn_name = << "roc_builtins.num.missing" >>
    /\ outcome.status = "panic"
    /\ Len(builder) = 1
    /\ builder[1].callee = << "Test_compare_1" >>
    /\ builder[1].cc = FAST_CALL_CONV

IsCompareWrapper(f) == f.name[Len(f.name)] = "_compare_wrapper"

\* C15: every comparison wrapper build_compare_wrapper hands out takes exactly
\* three opaque pointers, returns an 8-bit ordering code and has the C calling
\* convention, while its call of the user's comparison function has the fast
\* calling convention; so has the wrapper a later call finds in the module and
\* returns.
C15_CompareWrapperShape ==
    LET well_formed(f) ==
            /\ f.params = << arg_type, arg_type, arg_type >>
            /\ f.ret = "i8"
            /\ f.cc = C_CALL_CONV
            /\ Len(f.calls) = 1
            /\ Append(f.calls[1].callee, "_compare_wrapper") = f.name
            /\ f.calls[1].cc = FAST_CALL_CONV
    IN  /\ outcome.status # "panic" =>
              \A i \in 1..Len(module) : IsCompareWrapper(module[i]) => well_formed(module[i])
        /\ (outcome.op = "build_compare_wrapper" /\ outcome.status = "returned") =>
              /\ outcome.ret \in 1..Len(module)
              /\ module[outcome.ret].name = outcome.fn_name
              /\ IsCompareWrapper(module[outcome.ret])
              /\ well_formed(module[outcome.ret])

\* C15 witness: a second call for one function found the wrapper in the module.
C15_Witness ==
    /\ outcome.op = "build_compare_wrapper"
    /\ outcome.status = "returned"
    /\ outcome.existed
    /\ module[outcome.ret].cc = C_CALL_CONV
    /\ module[outcome.ret].calls[1].cc = FAST_CALL_CONV
    /\ Len(module[outcome.ret].calls[1].args) = 3

\* C20: the wrapper builders get or create: the module holds exactly one
\* function for each wrapper name that was asked for; a call whose wrapper name
\* is in the module returns that function and adds nothing; the inc, inc_n and
\* dec wrappers of one layout have three different names, ending in _inc,
\* _inc_n and _dec, so that none stands in for another.
C20_GetOrCreate ==
    LET suffix(name) == name[Len(name)]
        rc_name(layout, mode) == build_rc_wrapper(Env, layout, mode).fn_name
    IN  /\ Len(module) = Len(InitModule) + Cardinality(requested)
        /\ \A name \in requested :
              Cardinality({ i \in 1..Len(module) : module[i].name = name }) = 1
        /\ (outcome.op \in WrapperOps /\ outcome.status = "returned") =>
              /\ outcome.ret \in 1..Len(module)
              /\ module[outcome.ret].name = outcome.fn_name
        /\ (outcome.op \in WrapperOps /\ outcome.existed) =>
              /\ outcome.status = "returned"
              /\ outcome.ret = get_function(outcome.module_before, outcome.fn_name)
              /\ module = outcome.module_before
              /\ builder = outcome.builder_before
        /\ (outcome.op \in WrapperOps /\ ~outcome.existed) =>
              /\ Len(module) = Len(outcome.module_before) + 1
              /\ SubSeq(module, 1, Len(module) - 1) = outcome.module_before
              /\ module[Len(module)].name = outcome.fn_name
        /\ outcome.op = "build_inc_wrapper" =>
              /\ suffix(outcome.fn_name) = "_inc"
              /\ module[outcome.ret].body = "increment_refcount_layout"
        /\ outcome.op = "build_inc_n_wrapper" =>
              /\ suffix(outcome.fn_name) = "_inc_n"
              /\ module[outcome.ret].body = "increment_n_refcount_layout"
        /\ outcome.op = "build_dec_wrapper" =>
              /\ suffix(outcome.fn_name) = "_dec"
              /\ module[outcome.ret].body = "decrement_refcount_layout"
        /\ \A layout \in Layouts :
              Cardinality({ rc_name(layout, mode) : mode \in Mode }) = 3

\* C20 witness: the inc, the inc_n and the dec wrapper of one layout were
\* built one after another: the module holds three more functions.
C20_Witness ==
    /\ outcome.n = 3
    /\ outcome.op = "build_dec_wrapper"
    /\ ~outcome.existed
    /\ Len(module) = Len(InitModule) + 3
    /\ requested = { << "GENERIC_RC_REF", "_", "1", "_inc" >>,
                     << "GENERIC_RC_REF", "_", "1", "_inc_n" >>,
                     << "GENERIC_RC_REF", "_", "1", "_dec" >> }

====
